---- MODULE Spec2Model ----
(***************************************************************************)
(* photonai_icu: the two ResamplerTransformer classes.                     *)
(*   variant 1 = photonai_icu/resampler/ResamplerTransformer.py            *)
(*   variant 2 = photonai_icu/transformer/ResamplerTransformer.py          *)
(* Time is counted in quarter hours.  A number is an exact rational        *)
(* [n, d, sqrt]; NaN / pd.NA is the record with d = 0.                     *)
(***************************************************************************)
EXTENDS Integers, Sequences, FiniteSets, TLC

VARIABLES variant, frequency, method, groupby, default_value, error,
          ctor_default_value, pc, X, call

vars == <<variant, frequency, method, groupby, default_value, error,
          ctor_default_value, pc, X, call>>

config == <<variant, frequency, method, groupby, default_value, error,
            ctor_default_value>>

(* ---------------------------- bounds ----------------------------------- *)
MaxRows == 2
MaxHour == 2

(* ---------------------------- numbers ---------------------------------- *)
Abs(x) == IF x < 0 THEN -x ELSE x

RECURSIVE GCD(_, _)
GCD(a, b) == IF b = 0 THEN a ELSE GCD(b, a % b)

NA == [n |-> 0, d |-> 0, sqrt |-> FALSE]

Num(n, d) ==
    LET g == GCD(Abs(n), d)
    IN  [n |-> n \div g, d |-> d \div g, sqrt |-> FALSE]

Float(v) == [n |-> v, d |-> 1, sqrt |-> FALSE]

isna(v) == v.d = 0

IsZero(v) == v.d # 0 /\ v.n = 0

Sqrt(q) == IF q.n = 0 \/ q.n = q.d THEN q ELSE [q EXCEPT !.sqrt = TRUE]

None == [none |-> TRUE]
NoneStr == "None"

(* ---------------------------- inputs ----------------------------------- *)
\* a frequency string in quarter hours
FreqTicks(f) == CASE f = "1H" -> 4 [] f = "30min" -> 2

\* readings on the hour, and one at 00:30
Timestamps == {FreqTicks("1H") * h : h \in 0..MaxHour} \cup {FreqTicks("30min")}
Groups == <<"A", "B">>
Values == {-1, 0, 1}
FillValues == {Float(0), Float(9)}
Methods == {"mean", "sum", "max", "min", "std", "median", "first", "last"}

GroupIndex(g) == CHOOSE i \in DOMAIN Groups : Groups[i] = g

RowBefore(r, s) ==
    \/ GroupIndex(r.stay_id) < GroupIndex(s.stay_id)
    \/ r.stay_id = s.stay_id /\ r.time < s.time

RowTypes ==
    {[stay_id |-> Groups[i], time |-> t, value |-> v] :
        i \in DOMAIN Groups, t \in Timestamps, v \in Values}

RECURSIVE RowSeqs(_)
RowSeqs(k) ==
    IF k = 0 THEN {<<>>}
    ELSE LET S == RowSeqs(k - 1)
         IN  S \cup {Append(s, r) : s \in {q \in S : Len(q) = k - 1},
                                    r \in RowTypes}

SortedRowSeqs ==
    {s \in RowSeqs(MaxRows) : \A i \in 1..(Len(s) - 1) : RowBefore(s[i], s[i + 1])}

DatetimeIndex == <<"time">>
MultiIndex == <<"stay_id", "time">>
KeyIndex == <<"stay_id">>

DataFrame(index, rows) == [kind |-> "DataFrame", index |-> index, rows |-> rows]

ScenarioRows ==
    << [stay_id |-> "A", time |-> 0, value |-> 10],
       [stay_id |-> "A", time |-> 6, value |-> 20],
       [stay_id |-> "B", time |-> 3, value |-> 5] >>

GapScenarioRows ==
    << [stay_id |-> "A", time |-> 0, value |-> 10],
       [stay_id |-> "A", time |-> 12, value |-> 20],
       [stay_id |-> "B", time |-> 3, value |-> 5] >>

NonTables == {[kind |-> "ndarray"], [kind |-> "NoneType"]}

\* a frame indexed by the stay alone holds one row per stay
OneRowPerStay(rows) ==
    \A i, j \in DOMAIN rows : rows[i].stay_id = rows[j].stay_id => i = j

Tables ==
    {DataFrame(ix, rows) :
        ix \in {DatetimeIndex, MultiIndex},
        rows \in SortedRowSeqs \cup {ScenarioRows, GapScenarioRows}}
    \cup {DataFrame(KeyIndex, rows) : rows \in {s \in SortedRowSeqs : OneRowPerStay(s)}}

Inputs == NonTables \cup Tables

(* ------------------------- library primitives -------------------------- *)
isinstance_DataFrame(x) == x.kind = "DataFrame"

is_datetime64_any_dtype_level(name) == name = "time"

\* dtype of a MultiIndex is object, whatever its levels are
is_datetime64_any_dtype_index(index) ==
    Len(index) = 1 /\ is_datetime64_any_dtype_level(index[1])

Bucket(t, f) == t \div FreqTicks(f)

\* BucketStart gone wrong: buckets labelled by their right edge
BucketStart_right(b, f) == (b + 1) * FreqTicks(f)

BucketStart(b, f) == b * FreqTicks(f)

RECURSIVE SumSeq(_)
SumSeq(vs) == IF vs = <<>> THEN 0 ELSE vs[1] + SumSeq(Tail(vs))

SetMin(S) == CHOOSE m \in S : \A y \in S : m <= y
SetMax(S) == CHOOSE m \in S : \A y \in S : m >= y
Range(s) == {s[i] : i \in DOMAIN s}

Median(vs) ==
    LET s == SortSeq(vs, LAMBDA a, b : a < b)
        n == Len(vs)
    IN  IF n % 2 = 1 THEN Float(s[(n + 1) \div 2])
        ELSE Num(s[n \div 2] + s[n \div 2 + 1], 2)

Std(vs) ==
    LET n == Len(vs)
        sq == [i \in DOMAIN vs |-> vs[i] * vs[i]]
    IN  IF n < 2 THEN NA
        ELSE Sqrt(Num(n * SumSeq(sq) - SumSeq(vs) * SumSeq(vs), n * (n - 1)))

\* the reduction of one bucket's values, vs in time order
agg(m, vs) ==
    IF vs = <<>> THEN (IF m = "sum" THEN Float(0) ELSE NA)
    ELSE CASE m = "mean"   -> Num(SumSeq(vs), Len(vs))
           [] m = "sum"    -> Float(SumSeq(vs))
           [] m = "max"    -> Float(SetMax(Range(vs)))
           [] m = "min"    -> Float(SetMin(Range(vs)))
           [] m = "std"    -> Std(vs)
           [] m = "median" -> Median(vs)
           [] m = "first"  -> Float(vs[1])
           [] m = "last"   -> Float(vs[Len(vs)])

\* DataFrame.reset_index(level): the level becomes a regular column
reset_index(x, level) ==
    [x EXCEPT !.index = SelectSeq(x.index, LAMBDA l : l # level)]

\* groupby_rows gone wrong: the rows are not partitioned
groupby_rows_all(x, g) == x.rows

\* the rows of group g, as DataFrame.groupby(key) hands them to resample
groupby_rows(x, g) == SelectSeq(x.rows, LAMBDA r : r.stay_id = g)

\* the values of one bucket, in time order (resample sorts on the time axis)
bucket_values(rows, b, f) ==
    LET inb == SortSeq(SelectSeq(rows, LAMBDA r : Bucket(r.time, f) = b),
                       LAMBDA r, s : r.time < s.time)
    IN  [i \in DOMAIN inb |-> inb[i].value]

\* resample_buckets gone wrong: only the buckets that hold a row
resample_buckets_occupied(rows, f) ==
    {Bucket(rows[i].time, f) : i \in DOMAIN rows}

\* the buckets resample lays out for one group
resample_buckets(rows, f) ==
    LET bs == {Bucket(rows[i].time, f) : i \in DOMAIN rows}
    IN  SetMin(bs)..SetMax(bs)

resample_agg(rows, g, f, m) ==
    LET bs == resample_buckets(rows, f)
        lo == SetMin(bs)
    IN  [i \in 1..Cardinality(bs) |->
            [stay_id |-> g, time |-> BucketStart(lo + i - 1, f),
             value |-> agg(m, bucket_values(rows, lo + i - 1, f))]]

RECURSIVE groupby_resample_agg_from(_, _, _, _)
groupby_resample_agg_from(x, i, f, m) ==
    IF i > Len(Groups) THEN <<>>
    ELSE LET rows == groupby_rows(x, Groups[i])
         IN  (IF rows = <<>> THEN <<>> ELSE resample_agg(rows, Groups[i], f, m))
             \o groupby_resample_agg_from(x, i + 1, f, m)

\* X.groupby(key).resample(frequency).agg(method)
groupby_resample_agg(x, f, m) ==
    DataFrame(MultiIndex, groupby_resample_agg_from(x, 1, f, m))

\* zero_to_na gone wrong: zero aggregates are kept
zero_to_na_kept(t) == t

\* resampeld_x.loc[resampeld_x[column] == 0, column] = pd.NA
zero_to_na(t) ==
    [t EXCEPT !.rows = [i \in DOMAIN t.rows |->
        IF IsZero(t.rows[i].value) THEN [t.rows[i] EXCEPT !.value = NA]
        ELSE t.rows[i]]]

\* fillna gone wrong: the fill is skipped
fillna_skipped(t, v) == t

fillna(t, v) ==
    [t EXCEPT !.rows = [i \in DOMAIN t.rows |->
        IF isna(t.rows[i].value) THEN [t.rows[i] EXCEPT !.value = v]
        ELSE t.rows[i]]]

(* ------------------------------ results -------------------------------- *)
Return(v) == [kind |-> "return", value |-> v]
Raise(exc, msg) == [kind |-> "raise", exc |-> exc, msg |-> msg]
NoResult == [kind |-> "none"]

\* LogNotDataFrame gone wrong: the message of the other check
LogNotDataFrame_pasted == "ResamplerTransformer: X does not have a datetime index"

LogNotDataFrame == "ResamplerTransformer: X is not a pandas DataFrame"
LogNoDatetimeIndex == "ResamplerTransformer: X does not have a datetime index"
MsgNotDataFrame == "X is not a pandas DataFrame"
MsgNoDatetimeIndex == "X does not have a datetime index"

Outcome(r, l, s) == [result |-> r, log |-> l, steps |-> s]

(* ------------------------------ variant 1 ------------------------------ *)
init1(frequency_, method_, groupby_, default_value_) ==
    [variant |-> 1,
     frequency |-> IF frequency_ # NoneStr THEN frequency_ ELSE "1H",
     method |-> IF method_ # NoneStr THEN method_ ELSE "mean",
     groupby |-> IF groupby_ # NoneStr THEN groupby_ ELSE "stay_id",
     default_value |-> IF default_value_ # None THEN default_value_ ELSE Float(0),
     error |-> NoneStr]

transform1(self, x) ==
    IF ~isinstance_DataFrame(x)
    THEN Outcome(Return(x), <<LogNotDataFrame>>, <<"isinstance">>)
    ELSE IF ~is_datetime64_any_dtype_index(x.index)
    THEN Outcome(Return(x), <<LogNoDatetimeIndex>>, <<"isinstance", "is_datetime">>)
    ELSE LET resampeld_x == groupby_resample_agg(x, self.frequency, self.method)
             done == <<"isinstance", "is_datetime", "groupby", "resample", "agg">>
         IN  IF self.default_value = None
             THEN Outcome(Return(resampeld_x), <<>>, done)
             ELSE Outcome(Return(fillna(resampeld_x, self.default_value)), <<>>,
                          Append(done, "fillna"))

(* ------------------------------ variant 2 ------------------------------ *)
init2(frequency_, groupby_, method_, default_value_, error_) ==
    [variant |-> 2,
     frequency |-> frequency_,
     method |-> method_,
     groupby |-> groupby_,
     default_value |-> default_value_,
     error |-> error_]

has_datetime_level(x) ==
    \E i \in DOMAIN x.index : is_datetime64_any_dtype_level(x.index[i])

\* on_error with the policy not consulted: never raising, always raising
on_error_never_raises(self, x, msg) == Return(x)

on_error_always_raises(self, x, msg) == Raise("ValueError", msg)

\* after the error is logged: raise under error="raise", else hand X back
on_error(self, x, msg) ==
    IF self.error = "raise" THEN Raise("ValueError", msg) ELSE Return(x)

transform2(self, x) ==
    IF ~isinstance_DataFrame(x)
    THEN Outcome(on_error(self, x, MsgNotDataFrame),
                 <<LogNotDataFrame>>, <<"isinstance">>)
    ELSE IF ~has_datetime_level(x)
    THEN Outcome(on_error(self, x, MsgNoDatetimeIndex),
                 <<LogNoDatetimeIndex>>, <<"isinstance", "is_datetime">>)
    ELSE IF self.groupby \notin Range(x.index)
    THEN \* reset_index of a name that is no index level
         Outcome(Raise("KeyError", self.groupby), <<>>,
                 <<"isinstance", "is_datetime", "reset_index">>)
    ELSE LET aggregated == groupby_resample_agg(reset_index(x, self.groupby),
                                                self.frequency, self.method)
             resampeld_x == zero_to_na(aggregated)
             done == <<"isinstance", "is_datetime", "reset_index", "groupby",
                       "resample", "agg", "drop", "zero_to_na">>
         IN  IF self.default_value = None
             THEN Outcome(Return(resampeld_x), <<>>, done)
             ELSE Outcome(Return(fillna(resampeld_x, self.default_value)), <<>>,
                          Append(done, "fillna"))

(* ------------------------------ the machine ---------------------------- *)
Self ==
    [variant |-> variant, frequency |-> frequency, method |-> method,
     groupby |-> groupby, default_value |-> default_value, error |-> error]

Constructed(obj, dv) ==
    /\ variant = obj.variant
    /\ frequency = obj.frequency
    /\ method = obj.method
    /\ groupby = obj.groupby
    /\ default_value = obj.default_value
    /\ error = obj.error
    /\ ctor_default_value = dv

Init ==
    /\ \E m \in Methods \cup {NoneStr}, dv \in FillValues \cup {None} :
          \/ Constructed(init1(NoneStr, m, NoneStr, dv), dv)
          \/ /\ m # NoneStr
             /\ \E e \in {"raise", "ignore"} :
                   Constructed(init2("1H", "stay_id", m, dv, e), dv)
    /\ pc = "constructed"
    /\ X = None
    /\ call = Outcome(NoResult, <<>>, <<>>)

Fit(x) ==
    /\ pc = "constructed"
    /\ pc' = "fitted"
    /\ X' = x
    /\ call' = Outcome(Return("self"), <<>>, <<>>)
    /\ UNCHANGED config

Transform(x) ==
    /\ pc = "fitted"
    /\ call' = IF variant = 1 THEN transform1(Self, x) ELSE transform2(Self, x)
    /\ X' = x
    /\ pc' = "transformed"
    /\ UNCHANGED config

DoFit == Fit(None)

DoTransform == pc = "fitted" /\ \E x \in Inputs : Transform(x)

Next == DoFit \/ DoTransform

Spec == Init /\ [][Next]_vars

(* ------------------------- vocabulary of the claims -------------------- *)
Called == pc = "transformed"

IsTable(x) == x.kind = "DataFrame"

\* the datetime precondition of the variant at hand, read off the input
HasDatetimeAxis(x) ==
    IF variant = 1 THEN x.index = <<"time">>
    ELSE \E i \in DOMAIN x.index : x.index[i] = "time"

FailsTypeCheck == Called /\ ~IsTable(X)

FailsIndexCheck == Called /\ IsTable(X) /\ ~HasDatetimeAxis(X)

PassesValidation == Called /\ IsTable(X) /\ HasDatetimeAxis(X)

Lenient == variant = 1 \/ error = "ignore"

Strict == variant = 2 /\ error = "raise"

Successful == PassesValidation /\ call.result.kind = "return"

OutRows == call.result.value.rows

Width == FreqTicks(frequency)

GroupsOf(x) == {x.rows[i].stay_id : i \in DOMAIN x.rows}

TimesOf(x, g) == {x.rows[i].time : i \in {j \in DOMAIN x.rows : x.rows[j].stay_id = g}}

\* bucket starts from the bucket of g's earliest row to the bucket of its latest
SpanStarts(x, g) ==
    LET ts == TimesOf(x, g)
    IN  {t0 \in 0..SetMax(ts) :
            /\ t0 % Width = 0
            /\ t0 + Width > SetMin(ts)}

\* the values of the rows of g with t0 <= time < t0 + Width, in row order
Contributing(x, g, t0) ==
    LET rs == SelectSeq(x.rows, LAMBDA r : r.stay_id = g /\ t0 <= r.time
                                           /\ r.time < t0 + Width)
    IN  [i \in DOMAIN rs |-> rs[i].value]

Cells(g, t0) == {OutRows[i].value : i \in {j \in DOMAIN OutRows :
                    OutRows[j].stay_id = g /\ OutRows[j].time = t0}}

Fill == IF default_value = None THEN NA ELSE default_value

(* ------------------------------- claims -------------------------------- *)

\* C1: variant 2 under error = "raise": a non-table argument raises a
\* ValueError whose message names the DataFrame requirement, a table with no
\* datetime-typed index level raises a ValueError whose message names the
\* datetime-index requirement, and in both cases nothing is returned.
C1_StrictRaises ==
    /\ (Strict /\ FailsTypeCheck) =>
          call.result = [kind |-> "raise", exc |-> "ValueError",
                         msg |-> "X is not a pandas DataFrame"]
    /\ (Strict /\ FailsIndexCheck) =>
          call.result = [kind |-> "raise", exc |-> "ValueError",
                         msg |-> "X does not have a datetime index"]

C1_Witness ==
    /\ Strict /\ FailsIndexCheck
    /\ X.rows # <<>>
    /\ call.result.kind = "raise"

\* C2: in lenient mode (variant 1, or variant 2 with error = "ignore") a
\* transform whose input fails a precondition does not raise: it logs one
\* error message and returns the very X it was given.
C2_LenientReturnsInput ==
    (Lenient /\ (FailsTypeCheck \/ FailsIndexCheck)) =>
        /\ call.result = [kind |-> "return", value |-> X]
        /\ Len(call.log) = 1

C2_Witness ==
    /\ variant = 2 /\ error = "ignore" /\ FailsIndexCheck
    /\ Len(X.rows) = 2
    /\ call.result.kind = "return"

\* C9: validation is ordered and all-or-nothing: the type check runs first
\* and the datetime check second; the first failed check logs exactly its own
\* message and ends the call before any later stage runs; a call that passes
\* both checks logs nothing.
C9_OrderedValidation ==
    /\ FailsTypeCheck =>
          /\ call.log = <<"ResamplerTransformer: X is not a pandas DataFrame">>
          /\ call.steps = <<"isinstance">>
    /\ FailsIndexCheck =>
          /\ call.log = <<"ResamplerTransformer: X does not have a datetime index">>
          /\ call.steps = <<"isinstance", "is_datetime">>
    /\ PassesValidation =>
          /\ call.log = <<>>
          /\ SubSeq(call.steps, 1, 2) = <<"isinstance", "is_datetime">>

C9_Witness ==
    /\ FailsTypeCheck
    /\ Len(call.log) = 1
    /\ variant = 1

\* the reduction the configured method yields for the rows of g in [t0, t0 + Width)
Aggregate(g, t0) == agg(method, Contributing(X, g, t0))

\* C3: built with default_value unset, a successful transform of either
\* variant leaves every missing aggregate missing in the returned table.
C3_UnsetDefaultKeepsMissing ==
    (Successful /\ ctor_default_value = None) =>
        \A g \in GroupsOf(X) : \A t0 \in SpanStarts(X, g) :
            isna(Aggregate(g, t0)) => Cells(g, t0) = {NA}

\* C4: with default_value = v configured, the table a successful transform
\* returns has no missing cell, and every cell whose aggregate is missing (in
\* variant 2 also: is zero) equals v.
C4_DefaultFill ==
    (Successful /\ ctor_default_value # None) =>
        /\ \A i \in DOMAIN OutRows : ~isna(OutRows[i].value)
        /\ \A g \in GroupsOf(X) : \A t0 \in SpanStarts(X, g) :
              (isna(Aggregate(g, t0)) \/ (variant = 2 /\ IsZero(Aggregate(g, t0))))
                  => Cells(g, t0) = {ctor_default_value}

C4_Witness ==
    /\ Successful /\ ctor_default_value = Float(9)
    /\ \E g \in GroupsOf(X) : \E t0 \in SpanStarts(X, g) :
          Contributing(X, g, t0) = <<>> /\ Cells(g, t0) = {Float(9)}

ScenarioCase ==
    /\ Successful
    /\ X.rows = ScenarioRows
    /\ frequency = "1H" /\ method = "mean" /\ default_value = Float(0)

ScenarioExpected ==
    << [stay_id |-> "A", time |-> 0, value |-> Float(10)],
       [stay_id |-> "A", time |-> 4, value |-> Float(20)],
       [stay_id |-> "B", time |-> 0, value |-> Float(5)] >>

\* C6 as stated: every output cell of a bucket with a contributing row holds
\* the configured aggregate of exactly the rows of that group and bucket.
C6_Original ==
    Successful =>
        \A g \in GroupsOf(X) : \A t0 \in SpanStarts(X, g) :
            Contributing(X, g, t0) # <<>> => Cells(g, t0) = {Aggregate(g, t0)}

\* C6 amended: every output cell of a bucket with a contributing row holds
\* the configured aggregate of exactly the rows of that group and bucket,
\* unless that aggregate is missing or, in variant 2, equal to zero: then the
\* cell holds the stored default_value, or is missing when that is null.  The
\* documented example yields A: 10 at 00:00, 20 at 01:00 and B: 5 at 00:00.
C6_AggregatePerBucket ==
    /\ Successful =>
          \A g \in GroupsOf(X) : \A t0 \in SpanStarts(X, g) :
              Contributing(X, g, t0) # <<>> =>
                  Cells(g, t0) =
                      {IF \/ isna(Aggregate(g, t0))
                          \/ variant = 2 /\ IsZero(Aggregate(g, t0))
                       THEN Fill ELSE Aggregate(g, t0)}
    /\ ScenarioCase => OutRows = ScenarioExpected

C6_Witness ==
    /\ ScenarioCase
    /\ variant = 2
    /\ OutRows = ScenarioExpected

\* an input that is one group on a gap-free grid of bucket starts
UniformGrid(x) ==
    /\ Cardinality(GroupsOf(x)) = 1
    /\ \A i \in DOMAIN x.rows :
          /\ x.rows[i].time % Width = 0
          /\ i > 1 => x.rows[i].time = x.rows[i - 1].time + Width

GridCase == Successful /\ method = "first" /\ UniformGrid(X)

\* C7 as stated: on a uniform single-group grid, method "first" returns at
\* every timestamp the input value, zero included, in both variants.
C7_Original ==
    GridCase =>
        \A i \in DOMAIN X.rows :
            Cells(X.rows[i].stay_id, X.rows[i].time) = {Float(X.rows[i].value)}

\* C7 amended: on a uniform single-group grid, method "first" returns at
\* every timestamp the input value when that value is not zero, in both
\* variants; a zero input value is returned as zero by variant 1, and by
\* variant 2 as default_value, or as missing when default_value is null.
C7_IdempotentGrid ==
    GridCase =>
        \A i \in DOMAIN X.rows :
            Cells(X.rows[i].stay_id, X.rows[i].time) =
                {IF variant = 2 /\ X.rows[i].value = 0 THEN Fill
                 ELSE Float(X.rows[i].value)}

C7_Witness ==
    /\ GridCase
    /\ Len(X.rows) = 2
    /\ variant = 2
    /\ X.rows[1].value = 0 /\ X.rows[2].value # 0
    /\ Cells(X.rows[1].stay_id, X.rows[1].time) = {NA}

\* C8: variant 2 turns every aggregate equal to zero into missing before the
\* fill, so the returned cell is missing under a null default_value and equals
\* default_value otherwise, while a non-zero aggregate is returned as it is;
\* variant 1 returns a zero aggregate as zero.
C8_ZeroCoercion ==
    Successful =>
        \A g \in GroupsOf(X) : \A t0 \in SpanStarts(X, g) :
            LET a == Aggregate(g, t0)
            IN  /\ (variant = 2 /\ IsZero(a)) => Cells(g, t0) = {Fill}
                /\ (variant = 1 /\ IsZero(a)) => Cells(g, t0) = {a}
                /\ (~isna(a) /\ ~IsZero(a)) => Cells(g, t0) = {a}

C8_Witness ==
    /\ Successful /\ variant = 2 /\ default_value = Float(9)
    /\ \E g \in GroupsOf(X) : \E t0 \in SpanStarts(X, g) :
          /\ Len(Contributing(X, g, t0)) = 2
          /\ IsZero(Aggregate(g, t0))
          /\ Cells(g, t0) = {Float(9)}

\* C10: variant 2 completes with a resampled table for every table that
\* passes both preconditions, whether the grouping key is an index level or
\* already a regular column.
C10_AnyKeyPlacement ==
    (variant = 2 /\ PassesValidation) =>
        /\ call.result.kind = "return"
        /\ call.result.value.index = <<"stay_id", "time">>

====
